---- MODULE Spec2Model ----
(***************************************************************************)
(* Model of the dashboard's data shaping code                              *)
(* (dashboard/src/lib/supabaseData.ts and the pages that use it).          *)
(*                                                                         *)
(* Numbers.  Scores (0..10 scale) are held in thousandths: 8250 is 8.25.   *)
(* The one-decimal results of Number(x.toFixed(1)) are held in tenths:     *)
(* 83 is 8.3, and a passRate of 500 is 50.0 percent.  Timestamps are       *)
(* whole hours since 1970-01-01T00:00Z, dates are whole days since         *)
(* 1970-01-01.  The score values used by the aggregations are multiples    *)
(* of 0.25, which are exact as IEEE doubles, so that the sums the code     *)
(* forms are exact and its single division is the correctly rounded        *)
(* quotient.                                                               *)
(***************************************************************************)
EXTENDS Integers, Sequences, FiniteSets

VARIABLES
  agentsView,    \* rows of vw_agent_performance_summary (the remote store)
  statsPc,       \* fetchDashboardStats: "idle", "done" or "failed"
  agents,        \* what the query returned: [null |-> BOOLEAN, rows |-> Seq]
  stats,         \* the DashboardStats returned
  tz,            \* the runtime's local UTC offset, in hours
  testsView,     \* rows of vw_test_results_history (the remote store)
  historyPc,     \* fetchScoreHistory: "idle", "done" or "failed"
  scoreHistory,  \* the ScoreHistory[] returned
  clsScore,      \* argument of getTestStatus
  clsStatus,     \* its result, "none" before the call
  testResults,   \* TestsPage state: loaded rows
  loading,       \* TestsPage state
  searchQuery,   \* TestsPage state
  statusFilter,  \* TestsPage state
  scoreFilter,   \* TestsPage state
  agent,         \* argument of mapAgentToLegacyFormat
  mapperPc,      \* mapAgentToLegacyFormat: "idle" or "done"
  legacy,        \* its result
  overview,      \* OverviewPage state: stats, scoreHistory, recentAgents,
                 \* loading, error
  mounted,       \* OverviewPage: the effect has run
  promises,      \* the three fetches: state and value of each promise
  joined,        \* the Promise.all of the three: state and reason
  issued,        \* how many times loadData has issued each fetch
  mockAgents,    \* agents of mockData
  testRuns,      \* testRuns of mockData
  params,        \* AgentDetailPage: params.id of the request
  page           \* AgentDetailPage: what the request ended in

statsVars == <<agentsView, statsPc, agents, stats>>
historyVars == <<tz, testsView, historyPc, scoreHistory>>
classifyVars == <<clsScore, clsStatus>>
testsVars == <<testResults, loading, searchQuery, statusFilter, scoreFilter>>
mapperVars == <<agent, mapperPc, legacy>>
overviewVars == <<overview, mounted, promises, joined, issued>>
detailVars == <<mockAgents, testRuns, params, page>>
vars ==
  <<statsVars, historyVars, classifyVars, testsVars, mapperVars, overviewVars,
    detailVars>>

(***************************************************************************)
(* JavaScript values that are not numbers of the model's ranges.           *)
(***************************************************************************)
Null == -1
NaN == -2

(***************************************************************************)
(* Bounds.                                                                 *)
(***************************************************************************)
MaxRows == 5
MaxTests == 7
MaxScore == 10000
MaxLoaded == 2

(***************************************************************************)
(* Number.prototype.toFixed(1), then Number(): the tenths n for which      *)
(* n/10 - x is closest to zero, the larger n if there are two, where x is  *)
(* the double that holds num/den.  When num/den is not halfway between two *)
(* tenths, the double lies on the same side of the halfway point as        *)
(* num/den.  When it is halfway, num/den = k/20 with k odd: for k a        *)
(* multiple of 5 (x.25, x.75) the double is exact and the larger n is      *)
(* taken; otherwise the double nearest k/20 lies below or above it, and    *)
(* DoubleBelowHalfway lists the k in 1..199 whose double lies below.       *)
(***************************************************************************)
DoubleBelowHalfway ==
  {3, 7, 17, 19, 23, 29, 33, 39, 41, 43, 51, 53, 61, 63, 71, 73, 81, 87, 91,
   97, 101, 107, 111, 117, 121, 127, 131, 137, 141, 147, 151, 157, 167, 169,
   177, 179, 187, 189, 197, 199}

\* Mutant: the value is cut to one decimal instead of rounded.
ToFixed1Truncating(num, den) == (10 * num) \div den

ToFixed1(num, den) ==
  LET t == (10 * num) \div den
      r == 10 * num - t * den
  IN  IF 2 * r < den THEN t
      ELSE IF 2 * r > den THEN t + 1
      ELSE IF (2 * t + 1) \in DoubleBelowHalfway THEN t
      ELSE t + 1

(***************************************************************************)
(* fetchDashboardStats                                                     *)
(***************************************************************************)
\* The agent rows the store may hold: scores 9.0, 7.5, 8.0, 8.25 and null,
\* with counters that are numbers or null (a selected column is always
\* present in a returned row; a missing value is null).
AgentRowSet ==
  { [last_test_score |-> 9000, total_testes_executados |-> 3],
    [last_test_score |-> 7500, total_testes_executados |-> Null],
    [last_test_score |-> Null, total_testes_executados |-> 2],
    [last_test_score |-> 8000, total_testes_executados |-> 0],
    [last_test_score |-> 8250, total_testes_executados |-> 5],
    [last_test_score |-> Null, total_testes_executados |-> Null] }

\* x || 0 on a number, null or NaN
OrZero(x) == IF x = Null \/ x = NaN THEN 0 ELSE x

\* Mutant: a null operand poisons the sum, as undefined would.
JsAddNullIsNaN(sum, x) ==
  IF sum = NaN \/ x = NaN \/ x = Null THEN NaN ELSE sum + x

\* sum + x of JavaScript on numbers, null and NaN: null counts as 0
JsAdd(sum, x) ==
  IF sum = NaN \/ x = NaN THEN NaN
  ELSE IF x = Null THEN sum
  ELSE sum + x

\* agents?.filter(...) || [] and friends: the rows, none when data is null
RowsOrEmpty(a) == IF a.null THEN << >> ELSE a.rows

\* Mutant: rows with a null score are kept.
validScoresKeepNull(a) == RowsOrEmpty(a)

validScores(a) ==
  SelectSeq(RowsOrEmpty(a), LAMBDA r : r.last_test_score # Null)

RECURSIVE SumScores(_)
SumScores(s) ==
  IF s = << >> THEN 0
  ELSE SumScores(SubSeq(s, 1, Len(s) - 1)) + OrZero(s[Len(s)].last_test_score)

RECURSIVE SumCounters(_)
SumCounters(s) ==
  IF s = << >> THEN 0
  ELSE JsAdd(SumCounters(SubSeq(s, 1, Len(s) - 1)),
             s[Len(s)].total_testes_executados)

\* agents?.reduce(...) || 0
testsRun(a) == OrZero(SumCounters(RowsOrEmpty(a)))

\* Mutant: a score of exactly 8.0 does not pass.
passedTestsStrict(a) ==
  Len(SelectSeq(validScores(a), LAMBDA r : OrZero(r.last_test_score) > 8000))

passedTests(a) ==
  Len(SelectSeq(validScores(a), LAMBDA r : OrZero(r.last_test_score) >= 8000))

\* Mutant: no guard on an empty validScores (0 / 0).
averageScoreNoGuard(a) ==
  IF Len(validScores(a)) > 0
  THEN ToFixed1(SumScores(validScores(a)), 1000 * Len(validScores(a)))
  ELSE NaN

\* Mutant: the sum of the scores is not divided by their number.
averageScoreUndivided(a) ==
  IF Len(validScores(a)) > 0
  THEN ToFixed1(SumScores(validScores(a)), 1000)
  ELSE 0

\* averageScore after Number(averageScore.toFixed(1)), in tenths.
\* The sum of the scores is exact and is divided once, by the length.
averageScore(a) ==
  IF Len(validScores(a)) > 0
  THEN ToFixed1(SumScores(validScores(a)), 1000 * Len(validScores(a)))
  ELSE 0

\* Mutant: the rate is taken over all rows, unscored ones included.
passRateOverAllRows(a) ==
  IF Len(validScores(a)) > 0
  THEN ToFixed1(100 * passedTests(a), Len(RowsOrEmpty(a)))
  ELSE 0

\* passRate after Number(passRate.toFixed(1)), in tenths of a percent.
\* (passed / length) * 100 is halfway between two tenths only when length is
\* a multiple of 16.
passRate(a) ==
  IF Len(validScores(a)) > 0
  THEN ToFixed1(100 * passedTests(a), Len(validScores(a)))
  ELSE 0

fetchDashboardStats(a) ==
  [ totalAgents  |-> Len(RowsOrEmpty(a)),
    averageScore |-> averageScore(a),
    testsRun     |-> testsRun(a),
    passRate     |-> passRate(a) ]

NoStats ==
  [ totalAgents |-> Null, averageScore |-> Null,
    testsRun |-> Null, passRate |-> Null ]
NoAgents == [null |-> TRUE, rows |-> << >>]

StatsInit ==
  /\ agentsView = << >>
  /\ statsPc = "idle"
  /\ agents = NoAgents
  /\ stats = NoStats

\* The store gains an agent row (before the page reads its snapshot).
InsertAgentRow ==
  /\ statsPc = "idle"
  /\ Len(agentsView) < MaxRows
  /\ \E r \in AgentRowSet : agentsView' = Append(agentsView, r)
  /\ UNCHANGED <<statsPc, agents, stats>>

\* The query succeeds with the rows of the view.
FetchDashboardStatsRows ==
  /\ statsPc = "idle"
  /\ agents' = [null |-> FALSE, rows |-> agentsView]
  /\ stats' = fetchDashboardStats(agents')
  /\ statsPc' = "done"
  /\ UNCHANGED agentsView

\* The query succeeds with data null.
FetchDashboardStatsNull ==
  /\ statsPc = "idle"
  /\ agents' = NoAgents
  /\ stats' = fetchDashboardStats(agents')
  /\ statsPc' = "done"
  /\ UNCHANGED agentsView

\* The query fails: agentsError is thrown.
FetchDashboardStatsError ==
  /\ statsPc = "idle"
  /\ statsPc' = "failed"
  /\ UNCHANGED <<agentsView, agents, stats>>

(***************************************************************************)
(* fetchScoreHistory                                                       *)
(***************************************************************************)
HoursPerDay == 24
WindowDays == 30
LastWeeks == 5

\* 2024-01-07, a Sunday, in days since 1970-01-01
FirstSunday == 7 * 2818 + 3
\* Date.now() of the call: 2024-02-04T13:00Z
Now == (FirstSunday + 28) * HoursPerDay + 13
\* The local UTC offsets considered: New York (winter), UTC, Tokyo
TzSet == {-5, 0, 9}
\* tested_at of the rows the store may hold: one older than the window, then
\* Sat 20:00Z, Mon 01:00Z, Mon 15:00Z, three Mondays 12:00Z, Sun 12:00Z
TestedAtSet ==
  { (FirstSunday - 3) * HoursPerDay + 12,
    (FirstSunday - 1) * HoursPerDay + 20,
    (FirstSunday + 1) * HoursPerDay + 1,
    (FirstSunday + 1) * HoursPerDay + 15,
    (FirstSunday + 8) * HoursPerDay + 12,
    (FirstSunday + 15) * HoursPerDay + 12,
    (FirstSunday + 22) * HoursPerDay + 12,
    (FirstSunday + 28) * HoursPerDay + 12 }
HistoryScoreSet == {6000, 8500}

\* Date.prototype.getDay() of instant t in the local zone: 0 is Sunday
\* (1970-01-01 was a Thursday)
getDay(t, offset) == (((t + offset) \div HoursPerDay) + 4) % 7

\* weekStart.setDate(date.getDate() - date.getDay()): the local calendar day
\* moves back getDay() days and the local time of day is kept (fixed offset)
weekStart(t, offset) == t - HoursPerDay * getDay(t, offset)

\* toISOString().split('T')[0]: the UTC calendar day of the instant
isoDate(t) == t \div HoursPerDay

weekKey(t, offset) == isoDate(weekStart(t, offset))

\* .gte('tested_at', now - 30 days)
InWindow(view) ==
  {r \in view : r.tested_at >= Now - WindowDays * HoursPerDay}

\* .order('tested_at', { ascending: true })
RECURSIVE OrderAscending(_)
OrderAscending(S) ==
  IF S = {} THEN << >>
  ELSE LET first == CHOOSE r \in S : \A q \in S : r.tested_at <= q.tested_at
       IN  <<first>> \o OrderAscending(S \ {first})

\* One step of the forEach: the Map keeps its keys in insertion order.
\* m is a sequence of entries [key, scores].
MapPush(m, key, score) ==
  IF \E i \in 1..Len(m) : m[i].key = key
  THEN [i \in 1..Len(m) |->
          IF m[i].key = key
          THEN [key |-> key, scores |-> Append(m[i].scores, score)]
          ELSE m[i]]
  ELSE Append(m, [key |-> key, scores |-> <<score>>])

RECURSIVE weeklyScores(_, _)
weeklyScores(data, offset) ==
  IF data = << >> THEN << >>
  ELSE LET test == data[Len(data)]
       IN  MapPush(weeklyScores(SubSeq(data, 1, Len(data) - 1), offset),
                   weekKey(test.tested_at, offset), test.overall_score)

RECURSIVE SeqSum(_)
SeqSum(s) == IF s = << >> THEN 0 ELSE s[1] + SeqSum(Tail(s))

\* .slice(-n)
SliceLast(s, n) == IF Len(s) <= n THEN s ELSE SubSeq(s, Len(s) - n + 1, Len(s))

fetchScoreHistory(data, offset) ==
  LET m == weeklyScores(data, offset)
      points == [i \in 1..Len(m) |->
                   [date |-> m[i].key,
                    score |-> ToFixed1(SeqSum(m[i].scores), 1000 * Len(m[i].scores))]]
  IN  SliceLast(points, LastWeeks)

HistoryInit ==
  /\ tz \in TzSet
  /\ testsView = {}
  /\ historyPc = "idle"
  /\ scoreHistory = << >>

\* The store gains a test row (before the page reads its snapshot).
InsertTestRow ==
  /\ historyPc = "idle"
  /\ Cardinality(testsView) < MaxTests
  /\ \E t \in TestedAtSet, sc \in HistoryScoreSet :
       /\ \A r \in testsView : r.tested_at # t
       /\ testsView' = testsView \cup {[tested_at |-> t, overall_score |-> sc]}
  /\ UNCHANGED <<tz, historyPc, scoreHistory>>

\* The query succeeds with the rows of the last 30 days, oldest first.
FetchScoreHistoryRows ==
  /\ historyPc = "idle"
  /\ scoreHistory' = fetchScoreHistory(OrderAscending(InWindow(testsView)), tz)
  /\ historyPc' = "done"
  /\ UNCHANGED <<tz, testsView>>

\* The query fails: error is thrown.
FetchScoreHistoryError ==
  /\ historyPc = "idle"
  /\ historyPc' = "failed"
  /\ UNCHANGED <<tz, testsView, scoreHistory>>

(***************************************************************************)
(* getTestStatus                                                           *)
(***************************************************************************)
\* Mutant: a score of exactly 8.0 is not yet 'passed'.
getTestStatusStrict(score) ==
  IF score > 8000 THEN "passed"
  ELSE IF score >= 6000 THEN "warning"
  ELSE "failed"

getTestStatus(score) ==
  IF score >= 8000 THEN "passed"
  ELSE IF score >= 6000 THEN "warning"
  ELSE "failed"

\* getStatusBadgeVariant of the test history page
getStatusBadgeVariant(status) ==
  CASE status = "passed" -> "default"
    [] status = "warning" -> "secondary"
    [] status = "failed" -> "destructive"
    [] OTHER -> "secondary"

\* getScoreBadgeVariant of the test history page
getScoreBadgeVariant(sc) ==
  IF sc >= 8000 THEN "default"
  ELSE IF sc >= 7000 THEN "secondary"
  ELSE "destructive"

\* The colour of a recent agent's score on the overview page, on
\* (agent.last_test_score || 0)
scoreColour(sc) ==
  IF OrZero(sc) >= 8000 THEN "text-green-600"
  ELSE IF OrZero(sc) >= 6000 THEN "text-yellow-600"
  ELSE "text-red-600"

ClassifyInit ==
  /\ clsScore \in 0..MaxScore
  /\ clsStatus = "none"

\* getTestStatus is called on the score.
Classify ==
  /\ clsStatus = "none"
  /\ clsStatus' = getTestStatus(clsScore)
  /\ UNCHANGED clsScore

(***************************************************************************)
(* TestsPage (live data): loadTests, the three filters, filteredTests      *)
(***************************************************************************)
\* Strings are sequences of one-letter strings.
NameSet == { <<"A", "b">>, <<"b">> }
QuerySet == { << >>, <<"a">>, <<"B">>, <<"b", "a">> }
StatusFilterSet == {"all", "passed", "warning", "failed"}
ScoreFilterSet == {"all", "high", "medium", "low"}
\* The rows vw_test_results_history may hold (tested_at in hours).
TestRowSet ==
  [ agent_name : NameSet,
    overall_score : {5999, 6500, 7000, 8000},
    tested_at : {Now - 30, Now - 2} ]

\* String.prototype.toLowerCase
toLowerCase(str) ==
  [i \in 1..Len(str) |->
     CASE str[i] = "A" -> "a"
       [] str[i] = "B" -> "b"
       [] OTHER -> str[i]]

\* String.prototype.includes
includes(str, part) ==
  \E i \in 0..(Len(str) - Len(part)) : SubSeq(str, i + 1, i + Len(part)) = part

matchesSearch(test, query) ==
  includes(toLowerCase(test.agent_name), toLowerCase(query))

matchesStatus(test, filter) ==
  filter = "all" \/ getTestStatus(test.overall_score) = filter

\* Mutant: the medium band includes 8.0.
matchesScoreClosedMedium(test, filter) ==
  \/ filter = "all"
  \/ (filter = "high" /\ test.overall_score >= 8000)
  \/ (filter = "medium" /\ test.overall_score >= 7000 /\ test.overall_score <= 8000)
  \/ (filter = "low" /\ test.overall_score < 7000)

matchesScore(test, filter) ==
  \/ filter = "all"
  \/ (filter = "high" /\ test.overall_score >= 8000)
  \/ (filter = "medium" /\ test.overall_score >= 7000 /\ test.overall_score < 8000)
  \/ (filter = "low" /\ test.overall_score < 7000)

\* Mutant: the list is left in the order it was loaded.
sortOmitted(s) == s

\* Array.prototype.sort((a, b) => b.tested_at - a.tested_at): stable, so a
\* row goes after the rows that are not older than it.
RECURSIVE sortByTestedAtDesc(_)
sortByTestedAtDesc(s) ==
  IF s = << >> THEN << >>
  ELSE LET rest == sortByTestedAtDesc(SubSeq(s, 1, Len(s) - 1))
           last == s[Len(s)]
           k == Cardinality({i \in 1..Len(rest) : rest[i].tested_at >= last.tested_at})
       IN  SubSeq(rest, 1, k) \o <<last>> \o SubSeq(rest, k + 1, Len(rest))

\* Mutant: a row is kept when any one of the three criteria matches.
filteredTestsAnyCriterion ==
  sortByTestedAtDesc(
    SelectSeq(testResults,
              LAMBDA test : \/ matchesSearch(test, searchQuery)
                            \/ matchesStatus(test, statusFilter)
                            \/ matchesScore(test, scoreFilter)))

\* What the page renders once loading is false.
filteredTests ==
  sortByTestedAtDesc(
    SelectSeq(testResults,
              LAMBDA test : /\ matchesSearch(test, searchQuery)
                            /\ matchesStatus(test, statusFilter)
                            /\ matchesScore(test, scoreFilter)))

\* What the component renders: the view and the message it shows.  There is
\* no error view: the catch block of loadTests only logs.
TestsPage ==
  IF loading
  THEN [view |-> "loading", message |-> "Loading test history..."]
  ELSE [view |-> "table",
        message |-> IF Len(filteredTests) = 0
                    THEN "No tests found matching your filters" ELSE ""]

BoundedSeq(S, n) == UNION {[1..k -> S] : k \in 0..n}

TestsInit ==
  /\ testResults = << >>
  /\ loading = TRUE
  /\ searchQuery = << >>
  /\ statusFilter = "all"
  /\ scoreFilter = "all"

\* loadTests: fetchAllTestResults(100) resolves with rows.
LoadTestsRows ==
  /\ loading
  /\ \E data \in BoundedSeq(TestRowSet, MaxLoaded) : testResults' = data
  /\ loading' = FALSE
  /\ UNCHANGED <<searchQuery, statusFilter, scoreFilter>>

\* loadTests: fetchAllTestResults(100) throws; the error is only logged.
LoadTestsError ==
  /\ loading
  /\ loading' = FALSE
  /\ UNCHANGED <<testResults, searchQuery, statusFilter, scoreFilter>>

\* The filter inputs are rendered once loading is false.
SetSearchQuery ==
  /\ ~loading
  /\ \E q \in QuerySet : searchQuery' = q
  /\ UNCHANGED <<testResults, loading, statusFilter, scoreFilter>>

SetStatusFilter ==
  /\ ~loading
  /\ \E f \in StatusFilterSet : statusFilter' = f
  /\ UNCHANGED <<testResults, loading, searchQuery, scoreFilter>>

SetScoreFilter ==
  /\ ~loading
  /\ \E f \in ScoreFilterSet : scoreFilter' = f
  /\ UNCHANGED <<testResults, loading, searchQuery, statusFilter>>

(***************************************************************************)
(* mapAgentToLegacyFormat                                                  *)
(***************************************************************************)
\* The rows of vw_agent_performance_summary handed to the mapper.  The
\* timestamps are ISO strings in the store (never empty), modelled in hours;
\* last_test_score and last_test_at are null for an agent never tested.
AgentSummarySet ==
  [ agent_version_id : {"v1", "v2"},
    agent_name : {"Ana", "Bot"},
    version : {"1.0", "2.0"},
    status : {"active", "draft"},
    last_test_score : {Null, 0, 7500, 10000},
    last_test_at : {Null, Now - 30, Now - 2},
    created_at : {Now - 100, Now - 50} ]

\* x || y on a timestamp or null
OrElse(x, y) == IF x = Null THEN y ELSE x

\* Mutant: the score is copied as it is, null included.
scoreNoDefault(a) == a.last_test_score

\* score: agent.last_test_score || 0
score(a) == OrZero(a.last_test_score)

\* Mutant: no fallback to created_at.
lastEvaluationNoFallback(a) == a.last_test_at

\* lastEvaluation: agent.last_test_at || agent.created_at
lastEvaluation(a) == OrElse(a.last_test_at, a.created_at)

mapAgentToLegacyFormat(a) ==
  [ id |-> a.agent_version_id,
    name |-> a.agent_name,
    version |-> a.version,
    score |-> score(a),
    status |-> a.status,
    lastEvaluation |-> lastEvaluation(a) ]

NoLegacy ==
  [ id |-> "", name |-> "", version |-> "", score |-> Null, status |-> "",
    lastEvaluation |-> Null ]

MapperInit ==
  /\ agent \in AgentSummarySet
  /\ mapperPc = "idle"
  /\ legacy = NoLegacy

\* mapAgentToLegacyFormat is called on the row.
MapAgentToLegacyFormat ==
  /\ mapperPc = "idle"
  /\ legacy' = mapAgentToLegacyFormat(agent)
  /\ mapperPc' = "done"
  /\ UNCHANGED agent

(***************************************************************************)
(* OverviewPage: the effect, loadData and its Promise.all, the views       *)
(***************************************************************************)
FetchNames == {"stats", "history", "agents"}

\* What each fetch may resolve with.
ResultSet(f) ==
  CASE f = "stats" ->
         { fetchDashboardStats([null |-> FALSE, rows |-> rows]) :
             rows \in { << >>,
                        << [last_test_score |-> 9000,
                            total_testes_executados |-> 3] >> } }
    [] f = "history" -> { << >>, << [date |-> FirstSunday, score |-> 85] >> }
    [] f = "agents" ->
         { << >>,
           << [agent_version_id |-> "v1", agent_name |-> "Ana",
               version |-> "1.0", status |-> "active",
               last_test_score |-> 7500, last_test_at |-> Now - 2,
               created_at |-> Now - 50] >> }

\* What a fetch may throw: an Error, or a value that is not an Error.
ReasonSet ==
  { [isError |-> TRUE, message |-> "permission denied"],
    [isError |-> FALSE, message |-> "timeout"] }
NoReason == [isError |-> FALSE, message |-> ""]

\* useState(null) of stats and error, useState([]) of the lists
NoError == [null |-> TRUE, message |-> ""]
NoResult(f) == IF f = "stats" THEN NoStats ELSE << >>

NotIssued(f) == [state |-> "none", value |-> NoResult(f), reason |-> NoReason]
Pending(f) == [state |-> "pending", value |-> NoResult(f), reason |-> NoReason]
NotJoined == [state |-> "pending", reason |-> NoReason]

\* Promise.all after one of its promises has settled: it rejects with the
\* first rejection, fulfils once all have fulfilled, and settles only once.
PromiseAll(ps, j, f) ==
  IF j.state # "pending" THEN j
  ELSE IF ps[f].state = "rejected"
  THEN [state |-> "rejected", reason |-> ps[f].reason]
  ELSE IF \A g \in FetchNames : ps[g].state = "fulfilled"
  THEN [state |-> "fulfilled", reason |-> NoReason]
  ELSE j

\* err instanceof Error ? err.message : 'Failed to load data'
errorMessage(err) == IF err.isError THEN err.message ELSE "Failed to load data"

\* The state of the component at its first render.
OverviewInitial ==
  [ stats |-> NoStats, scoreHistory |-> << >>, recentAgents |-> << >>,
    loading |-> TRUE, error |-> NoError ]

OverviewInit ==
  /\ overview = OverviewInitial
  /\ mounted = FALSE
  /\ promises = [f \in FetchNames |-> NotIssued(f)]
  /\ joined = NotJoined
  /\ issued = [f \in FetchNames |-> 0]

\* useEffect(..., []): loadData runs once after the first render, up to its
\* await; the three fetches are issued together.
Mount ==
  /\ ~mounted
  /\ mounted' = TRUE
  /\ overview' = [overview EXCEPT !.loading = TRUE, !.error = NoError]
  /\ promises' = [f \in FetchNames |-> Pending(f)]
  /\ issued' = [f \in FetchNames |-> issued[f] + 1]
  /\ joined' = NotJoined

\* One of the fetches resolves.
FetchResolves ==
  \E f \in FetchNames : \E v \in ResultSet(f) :
    /\ promises[f].state = "pending"
    /\ promises' = [promises EXCEPT ![f] = [@ EXCEPT !.state = "fulfilled",
                                                     !.value = v]]
    /\ joined' = PromiseAll(promises', joined, f)
    /\ UNCHANGED <<overview, mounted, issued>>

\* One of the fetches throws.
FetchRejects ==
  \E f \in FetchNames : \E err \in ReasonSet :
    /\ promises[f].state = "pending"
    /\ promises' = [promises EXCEPT ![f] = [@ EXCEPT !.state = "rejected",
                                                     !.reason = err]]
    /\ joined' = PromiseAll(promises', joined, f)
    /\ UNCHANGED <<overview, mounted, issued>>

\* loadData resumes after the await with the three results, then finally.
LoadDataThen ==
  /\ mounted
  /\ overview.loading
  /\ joined.state = "fulfilled"
  /\ overview' = [overview EXCEPT !.stats = promises["stats"].value,
                                  !.scoreHistory = promises["history"].value,
                                  !.recentAgents = promises["agents"].value,
                                  !.loading = FALSE]
  /\ UNCHANGED <<mounted, promises, joined, issued>>

\* Mutant: the catch block stores what the fulfilled fetches returned.
LoadDataCatchStoring ==
  /\ mounted
  /\ overview.loading
  /\ joined.state = "rejected"
  /\ overview' = [overview EXCEPT !.stats = promises["stats"].value,
                                  !.scoreHistory = promises["history"].value,
                                  !.recentAgents = promises["agents"].value,
                                  !.error = [null |-> FALSE,
                                             message |-> errorMessage(joined.reason)],
                                  !.loading = FALSE]
  /\ UNCHANGED <<mounted, promises, joined, issued>>

\* Mutant: the catch block issues the three fetches again.
LoadDataCatchRetrying ==
  /\ mounted
  /\ overview.loading
  /\ joined.state = "rejected"
  /\ promises' = [f \in FetchNames |-> Pending(f)]
  /\ issued' = [f \in FetchNames |-> issued[f] + 1]
  /\ joined' = NotJoined
  /\ UNCHANGED <<overview, mounted>>

\* Mutant: setLoading(false) ends the try block instead of a finally block.
LoadDataCatchNoFinally ==
  /\ mounted
  /\ overview.loading
  /\ joined.state = "rejected"
  /\ overview' = [overview EXCEPT !.error = [null |-> FALSE,
                                             message |-> errorMessage(joined.reason)]]
  /\ UNCHANGED <<mounted, promises, joined, issued>>

\* loadData resumes after the await in its catch block, then finally.
LoadDataCatch ==
  /\ mounted
  /\ overview.loading
  /\ joined.state = "rejected"
  /\ overview' = [overview EXCEPT !.error = [null |-> FALSE,
                                             message |-> errorMessage(joined.reason)],
                                  !.loading = FALSE]
  /\ UNCHANGED <<mounted, promises, joined, issued>>

\* What the component renders: the view and the message it shows.
OverviewPage ==
  IF overview.loading
  THEN [view |-> "loading", message |-> "Loading dashboard data..."]
  ELSE IF ~overview.error.null /\ overview.error.message # ""
  THEN [view |-> "error", message |-> overview.error.message]
  ELSE [view |-> "dashboard",
        message |-> IF Len(overview.recentAgents) = 0
                    THEN "No Agents Found" ELSE ""]

\* The Retry button of the error view: window.location.reload() starts a new
\* page load; what the old one left pending is dropped.
Reload ==
  /\ OverviewPage.view = "error"
  /\ overview' = OverviewInitial
  /\ mounted' = FALSE
  /\ promises' = [f \in FetchNames |-> NotIssued(f)]
  /\ joined' = NotJoined
  /\ issued' = [f \in FetchNames |-> 0]

(***************************************************************************)
(* AgentDetailPage (app/agents/[id]/page.tsx) over the mock data           *)
(***************************************************************************)
MaxAgents == 2
MaxRuns == 2

\* The identities of the agent records, and those a request may carry.
AgentIdSet == {"a1", "a2"}
ParamIdSet == AgentIdSet \cup {"a3"}
\* The records agents and testRuns of mockData may hold (date in hours).
MockAgentSet == [id : AgentIdSet, score : {7500, 9000}]
TestRunSet == [agentId : AgentIdSet, date : {Now - 30, Now - 2, Now}]
NoMockAgent == [id |-> "", score |-> Null]

\* Array.prototype.find: the position of the first agent with the id, 0 when
\* find returns undefined
find(ags, id) ==
  IF \E i \in 1..Len(ags) : ags[i].id = id
  THEN CHOOSE i \in 1..Len(ags) :
         /\ ags[i].id = id
         /\ \A j \in 1..(i - 1) : ags[j].id # id
  ELSE 0

\* Array.prototype.sort((a, b) => new Date(b.date) - new Date(a.date)): stable
RECURSIVE sortByDateDesc(_)
sortByDateDesc(s) ==
  IF s = << >> THEN << >>
  ELSE LET rest == sortByDateDesc(SubSeq(s, 1, Len(s) - 1))
           last == s[Len(s)]
           k == Cardinality({i \in 1..Len(rest) : rest[i].date >= last.date})
       IN  SubSeq(rest, 1, k) \o <<last>> \o SubSeq(rest, k + 1, Len(rest))

\* testRuns.filter(test => test.agentId === agent.id).sort(...)
agentTests(runs, a) ==
  sortByDateDesc(SelectSeq(runs, LAMBDA test : test.agentId = a.id))

\* Mutant: no guard; agent.id of undefined throws a TypeError.
AgentDetailPageNoGuard(ags, runs, id) ==
  IF find(ags, id) = 0
  THEN [view |-> "error", agent |-> NoMockAgent, agentTests |-> << >>]
  ELSE [view |-> "detail", agent |-> ags[find(ags, id)],
        agentTests |-> agentTests(runs, ags[find(ags, id)])]

\* The component: notFound() throws, so nothing after it runs and the
\* framework renders its not-found page.
AgentDetailPage(ags, runs, id) ==
  IF find(ags, id) = 0
  THEN [view |-> "notFound", agent |-> NoMockAgent, agentTests |-> << >>]
  ELSE [view |-> "detail", agent |-> ags[find(ags, id)],
        agentTests |-> agentTests(runs, ags[find(ags, id)])]

NoPage == [view |-> "none", agent |-> NoMockAgent, agentTests |-> << >>]

DetailInit ==
  /\ mockAgents \in BoundedSeq(MockAgentSet, MaxAgents)
  /\ testRuns \in BoundedSeq(TestRunSet, MaxRuns)
  /\ params \in [id : ParamIdSet]
  /\ page = NoPage

\* The route /agents/[id] is requested.
RequestAgentDetail ==
  /\ page.view = "none"
  /\ page' = AgentDetailPage(mockAgents, testRuns, params.id)
  /\ UNCHANGED <<mockAgents, testRuns, params>>

(***************************************************************************)
(* Idle values of the parts a specification does not exercise.             *)
(***************************************************************************)
StatsIdle == StatsInit

HistoryIdle ==
  /\ tz = 0
  /\ testsView = {}
  /\ historyPc = "idle"
  /\ scoreHistory = << >>

ClassifyIdle ==
  /\ clsScore = 0
  /\ clsStatus = "none"

TestsIdle == TestsInit

MapperIdle ==
  /\ agent = [ agent_version_id |-> "v1", agent_name |-> "Ana",
               version |-> "1.0", status |-> "active",
               last_test_score |-> Null, last_test_at |-> Null,
               created_at |-> Now - 50 ]
  /\ mapperPc = "idle"
  /\ legacy = NoLegacy

OverviewIdle == OverviewInit

DetailIdle ==
  /\ mockAgents = << >>
  /\ testRuns = << >>
  /\ params = [id |-> "a1"]
  /\ page = NoPage

(***************************************************************************)
(* Specification of fetchDashboardStats over the store's rows.             *)
(***************************************************************************)
InitStats ==
  /\ StatsInit
  /\ HistoryIdle /\ ClassifyIdle /\ TestsIdle
  /\ MapperIdle /\ OverviewIdle /\ DetailIdle

NextStats ==
  \/ InsertAgentRow /\ UNCHANGED <<historyVars, classifyVars, testsVars,
         mapperVars, overviewVars, detailVars>>
  \/ FetchDashboardStatsRows /\ UNCHANGED <<historyVars, classifyVars, testsVars,
         mapperVars, overviewVars, detailVars>>
  \/ FetchDashboardStatsNull /\ UNCHANGED <<historyVars, classifyVars, testsVars,
         mapperVars, overviewVars, detailVars>>
  \/ FetchDashboardStatsError /\ UNCHANGED <<historyVars, classifyVars, testsVars,
         mapperVars, overviewVars, detailVars>>

SpecStats == InitStats /\ [][NextStats]_vars

(***************************************************************************)
(* Specification of fetchScoreHistory over the store's rows and the        *)
(* runtime's time zone.                                                    *)
(***************************************************************************)
InitHistory ==
  /\ HistoryInit
  /\ StatsIdle /\ ClassifyIdle /\ TestsIdle
  /\ MapperIdle /\ OverviewIdle /\ DetailIdle

NextHistory ==
  \/ InsertTestRow /\ UNCHANGED <<statsVars, classifyVars, testsVars,
         mapperVars, overviewVars, detailVars>>
  \/ FetchScoreHistoryRows /\ UNCHANGED <<statsVars, classifyVars, testsVars,
         mapperVars, overviewVars, detailVars>>
  \/ FetchScoreHistoryError /\ UNCHANGED <<statsVars, classifyVars, testsVars,
         mapperVars, overviewVars, detailVars>>

SpecHistory == InitHistory /\ [][NextHistory]_vars

(***************************************************************************)
(* Specification of getTestStatus over the scores 0.000 .. 10.000.         *)
(***************************************************************************)
InitClassify ==
  /\ ClassifyInit
  /\ StatsIdle /\ HistoryIdle /\ TestsIdle
  /\ MapperIdle /\ OverviewIdle /\ DetailIdle

NextClassify == Classify /\ UNCHANGED <<statsVars, historyVars, testsVars,
         mapperVars, overviewVars, detailVars>>

SpecClassify == InitClassify /\ [][NextClassify]_vars

(***************************************************************************)
(* Specification of the test history page.                                 *)
(***************************************************************************)
InitTests ==
  /\ TestsInit
  /\ StatsIdle /\ HistoryIdle /\ ClassifyIdle
  /\ MapperIdle /\ OverviewIdle /\ DetailIdle

NextTests ==
  \/ LoadTestsRows /\ UNCHANGED <<statsVars, historyVars, classifyVars,
         mapperVars, overviewVars, detailVars>>
  \/ LoadTestsError /\ UNCHANGED <<statsVars, historyVars, classifyVars,
         mapperVars, overviewVars, detailVars>>
  \/ SetSearchQuery /\ UNCHANGED <<statsVars, historyVars, classifyVars,
         mapperVars, overviewVars, detailVars>>
  \/ SetStatusFilter /\ UNCHANGED <<statsVars, historyVars, classifyVars,
         mapperVars, overviewVars, detailVars>>
  \/ SetScoreFilter /\ UNCHANGED <<statsVars, historyVars, classifyVars,
         mapperVars, overviewVars, detailVars>>

SpecTests == InitTests /\ [][NextTests]_vars

(***************************************************************************)
(* Specification of mapAgentToLegacyFormat over the agent rows.            *)
(***************************************************************************)
InitMapper ==
  /\ MapperInit
  /\ StatsIdle /\ HistoryIdle /\ ClassifyIdle /\ TestsIdle
  /\ OverviewIdle /\ DetailIdle

NextMapper ==
  MapAgentToLegacyFormat
    /\ UNCHANGED <<statsVars, historyVars, classifyVars, testsVars,
                   overviewVars, detailVars>>

SpecMapper == InitMapper /\ [][NextMapper]_vars

(***************************************************************************)
(* Specification of the overview page: one page load after another.        *)
(***************************************************************************)
OtherThanOverview ==
  <<statsVars, historyVars, classifyVars, testsVars, mapperVars, detailVars>>

InitOverview ==
  /\ OverviewInit
  /\ StatsIdle /\ HistoryIdle /\ ClassifyIdle /\ TestsIdle
  /\ MapperIdle /\ DetailIdle

NextOverview ==
  \/ Mount /\ UNCHANGED OtherThanOverview
  \/ FetchResolves /\ UNCHANGED OtherThanOverview
  \/ FetchRejects /\ UNCHANGED OtherThanOverview
  \/ LoadDataThen /\ UNCHANGED OtherThanOverview
  \/ LoadDataCatch /\ UNCHANGED OtherThanOverview
  \/ Reload /\ UNCHANGED OtherThanOverview

SpecOverview == InitOverview /\ [][NextOverview]_vars

\* The same with the scheduling of the runtime: the effect runs after the
\* first render, and a continuation of loadData whose await has settled is
\* run.  Nothing obliges a fetch to settle or the user to press Retry.
SpecOverviewFair ==
  /\ SpecOverview
  /\ WF_vars(Mount /\ UNCHANGED OtherThanOverview)
  /\ WF_vars(LoadDataThen /\ UNCHANGED OtherThanOverview)
  /\ WF_vars(LoadDataCatch /\ UNCHANGED OtherThanOverview)

(***************************************************************************)
(* Specification of the agent detail page over the mock data.              *)
(***************************************************************************)
InitDetail ==
  /\ DetailInit
  /\ StatsIdle /\ HistoryIdle /\ ClassifyIdle /\ TestsIdle
  /\ MapperIdle /\ OverviewIdle

NextDetail ==
  RequestAgentDetail
    /\ UNCHANGED <<statsVars, historyVars, classifyVars, testsVars,
                   mapperVars, overviewVars>>

SpecDetail == InitDetail /\ [][NextDetail]_vars

(***************************************************************************)
(* Specification of the loading of the two pages that fetch from the       *)
(* store, one page open at a time: the overview page, or the test history  *)
(* page once no overview page is mounted.  Of the test history page it has *)
(* loadTests only; the filter inputs, which leave loading alone, are in    *)
(* SpecTests.                                                              *)
(***************************************************************************)
OtherThanTests ==
  <<statsVars, historyVars, classifyVars, mapperVars, overviewVars, detailVars>>

InitLoading == InitOverview

NextLoading ==
  \/ Mount /\ TestsIdle /\ UNCHANGED OtherThanOverview
  \/ FetchResolves /\ TestsIdle /\ UNCHANGED OtherThanOverview
  \/ FetchRejects /\ TestsIdle /\ UNCHANGED OtherThanOverview
  \/ LoadDataThen /\ TestsIdle /\ UNCHANGED OtherThanOverview
  \/ LoadDataCatch /\ TestsIdle /\ UNCHANGED OtherThanOverview
  \/ Reload /\ TestsIdle /\ UNCHANGED OtherThanOverview
  \/ LoadTestsRows /\ OverviewIdle /\ UNCHANGED OtherThanTests
  \/ LoadTestsError /\ OverviewIdle /\ UNCHANGED OtherThanTests

SpecLoading == InitLoading /\ [][NextLoading]_vars

\* The scheduling of the runtime (the effect of the page that is open runs,
\* and so does a continuation whose await has settled), and the premise that
\* every fetch that is pending settles.
SpecLoadingFair ==
  /\ SpecLoading
  /\ WF_vars(Mount /\ TestsIdle /\ UNCHANGED OtherThanOverview)
  /\ WF_vars((FetchResolves \/ FetchRejects) /\ UNCHANGED OtherThanOverview)
  /\ WF_vars(LoadDataThen /\ UNCHANGED OtherThanOverview)
  /\ WF_vars(LoadDataCatch /\ UNCHANGED OtherThanOverview)
  /\ WF_vars((LoadTestsRows \/ LoadTestsError)
               /\ OverviewIdle /\ UNCHANGED OtherThanTests)

(***************************************************************************)
(* Specification of the two aggregations, one call at a time:              *)
(* fetchScoreHistory in any of the zones, or fetchDashboardStats.          *)
(***************************************************************************)
OtherThanStats ==
  <<historyVars, classifyVars, testsVars, mapperVars, overviewVars, detailVars>>
OtherThanHistory ==
  <<statsVars, classifyVars, testsVars, mapperVars, overviewVars, detailVars>>

InitAggregation == InitHistory

NextAggregation ==
  \/ InsertAgentRow /\ HistoryIdle /\ UNCHANGED OtherThanStats
  \/ FetchDashboardStatsRows /\ HistoryIdle /\ UNCHANGED OtherThanStats
  \/ FetchDashboardStatsNull /\ HistoryIdle /\ UNCHANGED OtherThanStats
  \/ FetchDashboardStatsError /\ HistoryIdle /\ UNCHANGED OtherThanStats
  \/ InsertTestRow /\ StatsIdle /\ UNCHANGED OtherThanHistory
  \/ FetchScoreHistoryRows /\ StatsIdle /\ UNCHANGED OtherThanHistory
  \/ FetchScoreHistoryError /\ StatsIdle /\ UNCHANGED OtherThanHistory

SpecAggregation == InitAggregation /\ [][NextAggregation]_vars

(***************************************************************************)
(* Properties of fetchDashboardStats (checked under SpecStats).             *)
(***************************************************************************)
\* The rows the query returned, and the positions of the scored ones.
ReturnedRows == IF agents.null THEN << >> ELSE agents.rows
ScoredIdx == {i \in 1..Len(ReturnedRows) : ReturnedRows[i].last_test_score # Null}
PassingIdx == {i \in ScoredIdx : ReturnedRows[i].last_test_score >= 8000}

RECURSIVE SetSum(_, _)
SetSum(f, S) ==
  IF S = {} THEN 0
  ELSE LET x == CHOOSE y \in S : TRUE IN f[x] + SetSum(f, S \ {x})

ScoreTotal == SetSum([i \in ScoredIdx |-> ReturnedRows[i].last_test_score], ScoredIdx)

Abs(x) == IF x < 0 THEN -x ELSE x
\* num/den rounded to tenths, halfway cases up
RoundHalfUp(num, den) == (20 * num + den) \div (2 * den)
\* t tenths is a value nearest to num/den
NearestTenth(t, num, den) == 2 * Abs(10 * num - t * den) <= den
\* num/den is halfway between two tenths, and not exact in binary
InexactHalfway(num, den) ==
  /\ (20 * num) % (2 * den) = den
  /\ ((20 * num) \div den) % 5 # 0

Row(sc, counter) ==
  [last_test_score |-> sc, total_testes_executados |-> counter]

\* C1 (as claimed): whenever some returned row is scored, averageScore is the
\* mean of the scored rows' scores rounded to one decimal, halfway cases up.
C1_AverageHalfUp ==
  (statsPc = "done" /\ ScoredIdx # {}) =>
    stats.averageScore = RoundHalfUp(ScoreTotal, 1000 * Cardinality(ScoredIdx))

\* C1 (amended): whenever some returned row is scored, averageScore is a
\* one-decimal value nearest to the mean of the scored rows' scores, and it is
\* the half-up rounding of the mean unless the mean is halfway between two
\* one-decimal values and not exact in binary (8.25 gives 8.3).
C1_AverageNearest ==
  (statsPc = "done" /\ ScoredIdx # {}) =>
    LET den == 1000 * Cardinality(ScoredIdx) IN
      /\ NearestTenth(stats.averageScore, ScoreTotal, den)
      /\ ~InexactHalfway(ScoreTotal, den) =>
           stats.averageScore = RoundHalfUp(ScoreTotal, den)

\* Rows [9.0, 7.5, null] have been aggregated to averageScore 8.3.
C1_Witness ==
  /\ statsPc = "done"
  /\ ~agents.null
  /\ agents.rows = << Row(9000, 3), Row(7500, Null), Row(Null, 2) >>
  /\ stats.averageScore = 83

\* C2: whenever some returned row is scored, passRate is 100 * (scored rows
\* with score >= 8.0) / (scored rows) rounded to one decimal; unscored rows
\* count on neither side.
C2_PassRate ==
  (statsPc = "done" /\ ScoredIdx # {}) =>
    /\ NearestTenth(stats.passRate, 100 * Cardinality(PassingIdx),
                    Cardinality(ScoredIdx))
    /\ stats.passRate =
         RoundHalfUp(100 * Cardinality(PassingIdx), Cardinality(ScoredIdx))

\* Rows [8.0, 7.5, null]: the 8.0 row passes, the null row is not counted.
C2_Witness ==
  /\ statsPc = "done"
  /\ ~agents.null
  /\ agents.rows = << Row(8000, 0), Row(7500, Null), Row(Null, 2) >>
  /\ stats.passRate = 500

\* C3: testsRun is the sum of total_testes_executados over all returned rows,
\* a row without a counter (null) counting 0.
C3_TestsRun ==
  statsPc = "done" =>
    stats.testsRun =
      SetSum([i \in 1..Len(ReturnedRows) |->
                IF ReturnedRows[i].total_testes_executados = Null THEN 0
                ELSE ReturnedRows[i].total_testes_executados],
             1..Len(ReturnedRows))

\* A row without a counter lies between two rows with counters 3 and 5.
C3_Witness ==
  /\ statsPc = "done"
  /\ ~agents.null
  /\ agents.rows = << Row(9000, 3), Row(7500, Null), Row(8250, 5) >>
  /\ stats.testsRun = 8

\* C4: totalAgents is the number of returned rows, unscored ones included;
\* one more unscored row raises totalAgents by one and leaves averageScore and
\* passRate as they are.
C4_TotalAgents ==
  statsPc = "done" =>
    /\ stats.totalAgents = Len(ReturnedRows)
    /\ \A r \in AgentRowSet :
         r.last_test_score = Null =>
           LET more == fetchDashboardStats(
                         [null |-> FALSE, rows |-> Append(ReturnedRows, r)])
           IN  /\ more.totalAgents = stats.totalAgents + 1
               /\ more.averageScore = stats.averageScore
               /\ more.passRate = stats.passRate

\* A scored and an unscored row have been counted as two agents.
C4_Witness ==
  /\ statsPc = "done"
  /\ ~agents.null
  /\ agents.rows = << Row(9000, 3), Row(Null, 2) >>
  /\ stats.totalAgents = 2
  /\ stats.averageScore = 90

\* C5: when no returned row is scored (no rows, null data, or only unscored
\* rows), averageScore and passRate are 0, not NaN.
C5_NoScores ==
  (statsPc = "done" /\ ScoredIdx = {}) =>
    /\ stats.averageScore = 0
    /\ stats.passRate = 0
    /\ stats.averageScore # NaN
    /\ stats.passRate # NaN

\* Two unscored rows have been aggregated.
C5_Witness ==
  /\ statsPc = "done"
  /\ ~agents.null
  /\ Len(agents.rows) = 2
  /\ ScoredIdx = {}
  /\ stats.averageScore = 0

\* C6: one more row with score >= 8.0 never lowers passRate.
C6_PassRateMonotone ==
  statsPc = "done" =>
    \A r \in AgentRowSet :
      (r.last_test_score # Null /\ r.last_test_score >= 8000) =>
        fetchDashboardStats(
          [null |-> FALSE, rows |-> Append(ReturnedRows, r)]).passRate
          >= stats.passRate

\* From [9.0, 7.5] at 50.0, one more row of 8.0 gives 66.7.
C6_Witness ==
  /\ statsPc = "done"
  /\ ~agents.null
  /\ agents.rows = << Row(9000, 3), Row(7500, Null) >>
  /\ stats.passRate = 500
  /\ fetchDashboardStats(
       [null |-> FALSE, rows |-> Append(agents.rows, Row(8000, 0))]).passRate = 667

(***************************************************************************)
(* Properties of fetchScoreHistory (checked under SpecHistory).            *)
(***************************************************************************)
\* The bucket keys of the rows the query returned.
FetchedKeys == {weekKey(r.tested_at, tz) : r \in InWindow(testsView)}
ReturnedDates == {scoreHistory[i].date : i \in 1..Len(scoreHistory)}
Min(a, b) == IF a <= b THEN a ELSE b

\* C7: whatever the local UTC offset, at most 5 points are returned and the
\* dates of consecutive points are strictly ascending.
C7_AtMostFiveAscending ==
  historyPc = "done" =>
    /\ Len(scoreHistory) <= 5
    /\ \A i \in 1..(Len(scoreHistory) - 1) :
         scoreHistory[i].date < scoreHistory[i + 1].date

\* C8: with k distinct buckets among the fetched rows, the points returned are
\* the min(5, k) buckets with the latest dates, and every point returned is
\* the bucket of some fetched row.
C8_LatestFiveBuckets ==
  historyPc = "done" =>
    /\ Len(scoreHistory) = Min(5, Cardinality(FetchedKeys))
    /\ Cardinality(ReturnedDates) = Len(scoreHistory)
    /\ ReturnedDates \subseteq FetchedKeys
    /\ \A d \in ReturnedDates : \A e \in FetchedKeys \ ReturnedDates : e < d

\* The same two properties hold when the runtime's zone is UTC.
HistoryOrderedInUtc ==
  tz = 0 => (C7_AtMostFiveAscending /\ C8_LatestFiveBuckets)

\* The buckets of the fetched rows before .slice(-5).
FetchedRows == InWindow(testsView)
Buckets == weeklyScores(OrderAscending(FetchedRows), tz)
\* The calendar day, in the zone of the offset, of the Sunday that starts the
\* week of instant t.
WeekStartDay(t, offset) == ((t + offset) \div HoursPerDay) - getDay(t, offset)
MembersOf(key) == {r \in FetchedRows : weekKey(r.tested_at, tz) = key}

\* The buckets are the Sunday-started weeks of the calendar of the offset.
BucketsAreWeeksOf(offset) ==
  LET m == Buckets IN
  /\ \A r \in FetchedRows :
       Cardinality({i \in 1..Len(m) : m[i].key = weekKey(r.tested_at, tz)}) = 1
  /\ \A i \in 1..Len(m) : Len(m[i].scores) = Cardinality(MembersOf(m[i].key))
  /\ \A r, q \in FetchedRows :
       (weekKey(r.tested_at, tz) = weekKey(q.tested_at, tz))
         <=> (WeekStartDay(r.tested_at, offset) = WeekStartDay(q.tested_at, offset))
  /\ \A r \in FetchedRows :
       weekKey(r.tested_at, tz) = WeekStartDay(r.tested_at, offset)
  /\ \A i \in 1..Len(m) :
       LET members == MembersOf(m[i].key) IN
       ToFixed1(SeqSum(m[i].scores), 1000 * Len(m[i].scores))
         = ToFixed1(SetSum([r \in members |-> r.overall_score], members),
                    1000 * Cardinality(members))

\* C15: before truncation every fetched row is in exactly one bucket, two rows
\* share a bucket exactly when they lie in the same week starting on Sunday,
\* the bucket's date is the date of that Sunday, and its score is the mean of
\* its members to one decimal: weeks taken in the runtime's zone, or in UTC.
C15_WeeklyBuckets ==
  historyPc = "done" => (BucketsAreWeeksOf(tz) \/ BucketsAreWeeksOf(0))

\* The same property holds when the runtime's zone is UTC.
WeeklyBucketsInUtc == tz = 0 => C15_WeeklyBuckets

(***************************************************************************)
(* Properties of getTestStatus (checked under SpecClassify).               *)
(***************************************************************************)
\* C9: every score in [0, 10] gets exactly one status: 'passed' iff
\* score >= 8.0, 'warning' iff 6.0 <= score < 8.0, 'failed' iff score < 6.0.
C9_StatusPartition ==
  clsStatus # "none" =>
    /\ clsStatus \in {"passed", "warning", "failed"}
    /\ (clsStatus = "passed") <=> (clsScore >= 8000)
    /\ (clsStatus = "warning") <=> (clsScore >= 6000 /\ clsScore < 8000)
    /\ (clsStatus = "failed") <=> (clsScore < 6000)
    /\ clsScore = 8000 => clsStatus = "passed"
    /\ clsScore = 7999 => clsStatus = "warning"
    /\ clsScore = 6000 => clsStatus = "warning"
    /\ clsScore = 5999 => clsStatus = "failed"

\* 8.0 has been classified 'passed'.
C9_Witness == clsScore = 8000 /\ clsStatus = "passed"

(***************************************************************************)
(* Properties of the test history page (checked under SpecTests).          *)
(***************************************************************************)
\* The two letters are the same up to case.
SameLetter(c, d) ==
  \/ c = d
  \/ {c, d} = {"a", "A"}
  \/ {c, d} = {"b", "B"}

\* name contains query, case ignored
ContainsIgnoringCase(name, query) ==
  \E i \in 0..(Len(name) - Len(query)) :
    \A j \in 1..Len(query) : SameLetter(name[i + j], query[j])

\* The row is one the three filters ask for.
Wanted(row) ==
  /\ searchQuery = << >> \/ ContainsIgnoringCase(row.agent_name, searchQuery)
  /\ CASE statusFilter = "all" -> TRUE
       [] statusFilter = "passed" -> row.overall_score >= 8000
       [] statusFilter = "warning" ->
            row.overall_score >= 6000 /\ row.overall_score < 8000
       [] statusFilter = "failed" -> row.overall_score < 6000
  /\ CASE scoreFilter = "all" -> TRUE
       [] scoreFilter = "high" -> row.overall_score >= 8000
       [] scoreFilter = "medium" ->
            row.overall_score >= 7000 /\ row.overall_score < 8000
       [] scoreFilter = "low" -> row.overall_score < 7000

Count(s, x) == Cardinality({i \in 1..Len(s) : s[i] = x})

\* C10: the displayed list holds exactly the loaded rows that the query, the
\* status filter and the score band ask for (each as often as it was loaded);
\* with the three at their defaults it holds every loaded row.
C10_FilteredExactly ==
  ~loading =>
    LET shown == filteredTests IN
    /\ \A x \in TestRowSet :
         Count(shown, x) = IF Wanted(x) THEN Count(testResults, x) ELSE 0
    /\ (searchQuery = << >> /\ statusFilter = "all" /\ scoreFilter = "all") =>
         Len(shown) = Len(testResults)

\* Of a loaded 'Ab' row at 7.0 and a 'b' row at 8.0, query 'a' with filters
\* warning and medium displays the first only.
C10_Witness ==
  /\ ~loading
  /\ Len(testResults) = 2
  /\ testResults[1].agent_name = <<"A", "b">> /\ testResults[1].overall_score = 7000
  /\ testResults[2].agent_name = <<"b">> /\ testResults[2].overall_score = 8000
  /\ searchQuery = <<"a">>
  /\ statusFilter = "warning"
  /\ scoreFilter = "medium"
  /\ filteredTests = <<testResults[1]>>

\* C11: whatever the filters and the order of loading, each displayed row's
\* tested_at is greater than or equal to that of the row displayed after it.
C11_DisplayedNewestFirst ==
  ~loading =>
    LET shown == filteredTests IN
    \A i \in 1..(Len(shown) - 1) : shown[i].tested_at >= shown[i + 1].tested_at

\* Two rows loaded oldest first are displayed newest first.
C11_Witness ==
  /\ ~loading
  /\ Len(testResults) = 2
  /\ testResults[1].tested_at < testResults[2].tested_at
  /\ filteredTests = <<testResults[2], testResults[1]>>

\* The rows of s that pass one criterion.
FilterBy(criterion, s) ==
  SelectSeq(s, LAMBDA test :
    CASE criterion = "search" -> matchesSearch(test, searchQuery)
      [] criterion = "status" -> matchesStatus(test, statusFilter)
      [] criterion = "score" -> matchesScore(test, scoreFilter))

CriteriaOrders ==
  { <<"search", "status", "score">>, <<"search", "score", "status">>,
    <<"status", "search", "score">>, <<"status", "score", "search">>,
    <<"score", "search", "status">>, <<"score", "status", "search">> }

Range(s) == {s[i] : i \in 1..Len(s)}

\* C12: applying the three criteria one after another, in any of the six
\* orders, leaves the same rows as the page's combined predicate displays.
C12_AnyOrderSameRows ==
  ~loading =>
    LET shown == filteredTests IN
    \A o \in CriteriaOrders :
      LET oneByOne == FilterBy(o[3], FilterBy(o[2], FilterBy(o[1], testResults)))
      IN  /\ Range(oneByOne) = Range(shown)
          /\ Len(oneByOne) = Len(shown)

\* With the three filters set, one of two loaded rows passes them one by one
\* and is the row displayed.
C12_Witness ==
  /\ ~loading
  /\ Len(testResults) = 2
  /\ searchQuery = <<"B">>
  /\ statusFilter = "passed"
  /\ scoreFilter = "high"
  /\ Len(filteredTests) = 1
  /\ FilterBy("score", FilterBy("status", FilterBy("search", testResults)))
       = filteredTests

(***************************************************************************)
(* Properties of mapAgentToLegacyFormat (checked under SpecMapper).        *)
(***************************************************************************)
\* C13: lastEvaluation is last_test_at when that is present and created_at
\* otherwise; with created_at present it is never null.
C13_LastEvaluationFallback ==
  mapperPc = "done" =>
    /\ agent.last_test_at # Null => legacy.lastEvaluation = agent.last_test_at
    /\ agent.last_test_at = Null => legacy.lastEvaluation = agent.created_at
    /\ legacy.lastEvaluation # Null

\* A row never tested has been mapped to its creation time.
C13_Witness ==
  /\ mapperPc = "done"
  /\ agent.last_test_at = Null
  /\ agent.created_at = Now - 50
  /\ legacy.lastEvaluation = Now - 50

\* C14: id, name, version and status are copies of agent_version_id,
\* agent_name, version and status; score is last_test_score when that is
\* present and 0 when it is null, so it is a number in [0, 10].
C14_FieldsCopiedScoreDefaulted ==
  mapperPc = "done" =>
    /\ legacy.id = agent.agent_version_id
    /\ legacy.name = agent.agent_name
    /\ legacy.version = agent.version
    /\ legacy.status = agent.status
    /\ agent.last_test_score # Null => legacy.score = agent.last_test_score
    /\ agent.last_test_score = Null => legacy.score = 0
    /\ legacy.score \in 0..MaxScore

\* A row without a score has been mapped to score 0.
C14_Witness ==
  /\ mapperPc = "done"
  /\ agent.last_test_score = Null
  /\ agent.agent_version_id = "v2"
  /\ legacy.id = "v2"
  /\ legacy.score = 0

(***************************************************************************)
(* Properties of the overview page (checked under SpecOverviewFair and     *)
(* SpecOverview).                                                          *)
(***************************************************************************)
AnyFetchFailed == \E f \in FetchNames : promises[f].state = "rejected"
SomeFetchSucceeded ==
  \E f \in FetchNames :
    promises[f].state = "fulfilled" /\ promises[f].value # NoResult(f)
NothingStored ==
  /\ overview.stats = NoStats
  /\ overview.scoreHistory = << >>
  /\ overview.recentAgents = << >>
InErrorState ==
  /\ OverviewPage.view = "error"
  /\ NothingStored

\* C16: the three fetches are issued together and joined; once one of them
\* has failed, whatever the order in which they complete, nothing a fetch
\* returned is stored, the page shows nothing but the loading or the error
\* view, and it ends in the error state.
C16_AnyFailureAbortsAll ==
  /\ [](\A f, g \in FetchNames : issued[f] = issued[g])
  /\ [](AnyFetchFailed =>
          /\ NothingStored
          /\ OverviewPage.view \in {"loading", "error"})
  /\ (AnyFetchFailed ~> InErrorState)

\* The error state, reached after one fetch failed, another had returned
\* data and the third was still pending.
C16_Witness ==
  /\ AnyFetchFailed
  /\ SomeFetchSucceeded
  /\ \E f \in FetchNames : promises[f].state = "pending"
  /\ InErrorState

(***************************************************************************)
(* Failure against empty result on the pages that fetch.                   *)
(***************************************************************************)
FailureMessages == {errorMessage(err) : err \in ReasonSet}

\* The overview page (under SpecOverview): after a failed fetch it shows the
\* error view with the failure message; after fetches that all succeeded,
\* with no agents, it shows the dashboard with its empty-state message.
OverviewFailureDistinctFromEmpty ==
  ~overview.loading =>
    /\ AnyFetchFailed =>
         /\ OverviewPage.view = "error"
         /\ OverviewPage.message \in FailureMessages
    /\ (~AnyFetchFailed /\ overview.recentAgents = << >>) =>
         /\ OverviewPage.view = "dashboard"
         /\ OverviewPage.message = "No Agents Found"

\* The state of the test history page after a fetch that returned zero rows.
AfterEmptyResult == << << >>, FALSE, searchQuery, statusFilter, scoreFilter >>

\* C17: a failed fetch leaves the page in an error state that shows a
\* failure message, and that state differs from the one reached after a
\* successful fetch of zero rows.  Stated for the test history page; the
\* overview page is OverviewFailureDistinctFromEmpty.
C17_FailureDistinctFromEmpty ==
  [][LoadTestsError =>
       /\ TestsPage'.view = "error"
       /\ testsVars' # AfterEmptyResult]_vars

(***************************************************************************)
(* No retry on the overview page (checked under SpecOverview).             *)
(***************************************************************************)
\* C18: within one page load each fetch is issued once, all three by the one
\* run of the effect, and a fetch once issued is never issued again; after a
\* fetch has failed the page does not go back from loaded to loading; and
\* the page leaves the error state only by the reload the user asks for,
\* which starts a new page load.
C18_IssuedOnceNoRetry ==
  [][/\ \A f \in FetchNames :
          /\ issued'[f] <= 1
          /\ mounted' => issued'[f] = 1
          /\ issued'[f] > issued[f] => (~mounted /\ promises[f].state = "none")
     /\ (~overview.loading /\ overview'.loading) =>
          (Reload /\ overview' = OverviewInitial /\ ~mounted')
     /\ (InErrorState /\ ~InErrorState') =>
          (Reload /\ overview' = OverviewInitial /\ ~mounted')
     /\ (AnyFetchFailed /\ ~Reload) =>
          /\ AnyFetchFailed'
          /\ issued' = issued
          /\ overview.loading \/ ~overview'.loading]_vars

\* The error state of a page load that issued each fetch once, with a fetch
\* still pending.
C18_Witness ==
  /\ InErrorState
  /\ \A f \in FetchNames : issued[f] = 1
  /\ \E f \in FetchNames : promises[f].state = "pending"
  /\ ENABLED Reload

(***************************************************************************)
(* One set of thresholds (checked under SpecClassify).                     *)
(***************************************************************************)
\* The class each indication stands for.
ClassOfVariant(v) ==
  CASE v = "default" -> "passed"
    [] v = "secondary" -> "warning"
    [] v = "destructive" -> "failed"
ClassOfColour(c) ==
  CASE c = "text-green-600" -> "passed"
    [] c = "text-yellow-600" -> "warning"
    [] c = "text-red-600" -> "failed"
ScoredTest(sc) == [agent_name |-> <<"b">>, overall_score |-> sc, tested_at |-> Now]
\* The one status filter, other than 'all', that keeps a test of the score.
ClassOfStatusFilter(sc) ==
  CHOOSE f \in StatusFilterSet \ {"all"} : matchesStatus(ScoredTest(sc), f)
\* Whether the pass count of the test history page counts the score.
CountedAsPassed(sc) == getTestStatus(sc) = "passed"

\* C19: for every score, the status badge, the status filter, the pass count
\* of the test history page, the score colour of the overview page and the
\* score badge put the score in the class the classifier gives it.
C19_SameThresholdsEverywhere ==
  clsStatus # "none" =>
    /\ ClassOfVariant(getStatusBadgeVariant(clsStatus)) = clsStatus
    /\ ClassOfStatusFilter(clsScore) = clsStatus
    /\ CountedAsPassed(clsScore) <=> (clsStatus = "passed")
    /\ ClassOfColour(scoreColour(clsScore)) = clsStatus
    /\ ClassOfVariant(getScoreBadgeVariant(clsScore)) = clsStatus

\* All of them but the score badge agree with the classifier.
AllButScoreBadgeAgree ==
  clsStatus # "none" =>
    /\ ClassOfVariant(getStatusBadgeVariant(clsStatus)) = clsStatus
    /\ ClassOfStatusFilter(clsScore) = clsStatus
    /\ CountedAsPassed(clsScore) <=> (clsStatus = "passed")
    /\ ClassOfColour(scoreColour(clsScore)) = clsStatus
    /\ (clsScore < 6000 \/ clsScore >= 7000) =>
         ClassOfVariant(getScoreBadgeVariant(clsScore)) = clsStatus

(***************************************************************************)
(* Properties of the agent detail page (checked under SpecDetail).         *)
(***************************************************************************)
KnownIds == {mockAgents[i].id : i \in 1..Len(mockAgents)}
\* How many times a run occurs in a sequence of runs.
Occurrences(s, x) == Cardinality({i \in 1..Len(s) : s[i] = x})

\* C20: a request whose id matches no agent record ends in 'not found', with
\* no agent and no tests rendered, and not in an error; a request whose id
\* matches ends in the detail view of the first record with that id, with
\* that agent's test runs, all of them and no others, most recent first.
C20_NotFoundOrOwnTestsNewestFirst ==
  page.view # "none" =>
    /\ params.id \notin KnownIds =>
         /\ page.view = "notFound"
         /\ page.agent = NoMockAgent
         /\ page.agentTests = << >>
    /\ params.id \in KnownIds =>
         /\ page.view = "detail"
         /\ page.agent.id = params.id
         /\ \E i \in 1..Len(mockAgents) :
              /\ page.agent = mockAgents[i]
              /\ \A j \in 1..(i - 1) : mockAgents[j].id # params.id
         /\ \A x \in TestRunSet :
              Occurrences(page.agentTests, x)
                = (IF x.agentId = params.id THEN Occurrences(testRuns, x) ELSE 0)
         /\ \A i \in 1..(Len(page.agentTests) - 1) :
              page.agentTests[i].date >= page.agentTests[i + 1].date

\* An id without a record has ended in 'not found' although another agent has
\* test runs.
C20_Witness ==
  /\ page.view = "notFound"
  /\ params.id = "a3"
  /\ Len(mockAgents) = 2
  /\ Len(testRuns) = 2

\* An agent's two runs, stored oldest first among another agent's, are shown
\* newest first.
DetailShowsOwnTestsNewestFirst ==
  /\ page.view = "detail"
  /\ params.id = "a1"
  /\ testRuns = << [agentId |-> "a1", date |-> Now - 30],
                   [agentId |-> "a1", date |-> Now] >>
  /\ page.agentTests = << testRuns[2], testRuns[1] >>

(***************************************************************************)
(* The loading flag of the two pages (checked under SpecLoadingFair).      *)
(***************************************************************************)
AllFetchesSettled ==
  \A f \in FetchNames : promises[f].state \in {"fulfilled", "rejected"}
AllResultsStored ==
  /\ \A f \in FetchNames : promises[f].state = "fulfilled"
  /\ overview.stats = promises["stats"].value
  /\ overview.stats # NoStats
  /\ overview.scoreHistory = promises["history"].value
  /\ overview.recentAgents = promises["agents"].value
\* The overview page once loading is false: error set and nothing stored, or
\* error null and the three results stored, and never both.
ErrorOrReady ==
  /\ (~overview.error.null /\ NothingStored)
       \/ (overview.error.null /\ AllResultsStored)
  /\ ~(~overview.error.null /\ overview.error.null)
  /\ ~(NothingStored /\ AllResultsStored)
\* The steps that start a page load again.
LoadsAgain == Reload

\* What the claim and its amendment share: a page that is open stops loading
\* and, within the page load, stays so; the test history page loads until
\* its fetch has settled; the overview page, once loaded, is in exactly one
\* of the two states.
LoadingEndsOnceAndDecides ==
  /\ (mounted ~> ~overview.loading)
  /\ <>(mounted \/ ~loading)
  /\ [][(~overview.loading /\ overview'.loading) => LoadsAgain]_vars
  /\ [][~loading => ~loading']_vars
  /\ [][(loading /\ ~loading') => (LoadTestsRows \/ LoadTestsError)]_vars
  /\ [](overview.loading => ~AllFetchesSettled \/ joined.state # "pending")
  /\ []((mounted /\ ~overview.loading) => ErrorOrReady)

\* C21 (as claimed): on the overview page loading is true from mount until
\* the fetches have all settled, so a page that has stopped loading has no
\* fetch pending.
C21_LoadingUntilAllSettled ==
  /\ []((mounted /\ ~overview.loading) => AllFetchesSettled)
  /\ LoadingEndsOnceAndDecides

\* C21 (amended): on the overview page loading is true from mount until the
\* join of the fetches has settled, that is until all three have succeeded
\* or the first of them has failed, others possibly still pending.
C21_LoadingUntilJoinSettled ==
  /\ []((mounted /\ ~overview.loading) => joined.state # "pending")
  /\ []((mounted /\ joined.state = "pending") => overview.loading)
  /\ []((mounted /\ ~overview.loading /\ overview.error.null) => AllFetchesSettled)
  /\ LoadingEndsOnceAndDecides

\* The filter inputs of the test history page never set loading (checked
\* under SpecTests).
TestsLoadingStaysFalse == [][~loading => ~loading']_vars

\* The overview page has stopped loading, in the error state, while a fetch
\* is still pending.
C21_Witness ==
  /\ mounted
  /\ ~overview.loading
  /\ ~overview.error.null
  /\ NothingStored
  /\ \E f \in FetchNames : promises[f].state = "pending"
  /\ \E f \in FetchNames : promises[f].state = "fulfilled"

(***************************************************************************)
(* Ranges of the aggregates (checked under SpecAggregation).               *)
(***************************************************************************)
MaxExtremes == 2
\* Rows scored 0.0 and 10.0, the ends of the range.
ExtremeScoreSet == {0, 10 * 1000}
ExtremeRowSet ==
  {[last_test_score |-> sc, total_testes_executados |-> 1] : sc \in ExtremeScoreSet}
\* The fetched test rows, each with score sc in place of its own.
Rescored(sc) ==
  {[tested_at |-> r.tested_at, overall_score |-> sc] : r \in InWindow(testsView)}
\* averageScore in [0, 10] (tenths), passRate in [0, 100] (tenths of a
\* percent), totalAgents at least the number of scored rows.
StatsInRange(st, rows) ==
  /\ st.averageScore \in 0..100
  /\ st.passRate \in 0..1000
  /\ st.totalAgents >=
       Cardinality({i \in 1..Len(rows) : rows[i].last_test_score # Null})
PointsInRange(points) ==
  \A i \in 1..Len(points) : points[i].score \in 0..100

\* C22: for agent rows whose scores lie in [0, 10], fetchDashboardStats
\* returns averageScore in [0, 10], passRate in [0, 100] and totalAgents at
\* least the number of scored rows, also when rows scored 0.0 and 10.0 are
\* among them; for test rows with scores in [0, 10], every point of
\* fetchScoreHistory has its score in [0, 10], also when all scores are 0.0
\* or all are 10.0.
C22_AggregatesInRange ==
  /\ statsPc = "done" =>
       /\ StatsInRange(stats, ReturnedRows)
       /\ \A more \in BoundedSeq(ExtremeRowSet, MaxExtremes) :
            LET rows == ReturnedRows \o more
            IN  StatsInRange(fetchDashboardStats([null |-> FALSE, rows |-> rows]),
                             rows)
  /\ historyPc = "done" =>
       /\ PointsInRange(scoreHistory)
       /\ \A sc \in ExtremeScoreSet :
            PointsInRange(fetchScoreHistory(OrderAscending(Rescored(sc)), tz))

\* Rows [9.0, null] give 9.0, 100.0 and two agents for one scored row; with
\* two rows of 10.0 more the average is 9.7.
C22_Witness ==
  /\ statsPc = "done"
  /\ ~agents.null
  /\ agents.rows = << Row(9000, 3), Row(Null, 2) >>
  /\ stats.averageScore = 90
  /\ stats.passRate = 1000
  /\ stats.totalAgents = 2
  /\ fetchDashboardStats(
       [null |-> FALSE,
        rows |-> agents.rows \o << Row(10 * 1000, 1), Row(10 * 1000, 1) >>]).averageScore = 97

\* Three weeks of test rows have been aggregated into points within range.
HistoryPointsReturned ==
  /\ historyPc = "done"
  /\ Len(scoreHistory) = 3
  /\ \E i \in 1..3 : scoreHistory[i].score = 85

====
